---- MODULE Spec2Model ----
(***************************************************************************)
(* Model of letter-boxed-solver/src/lib.rs: LetterBoxed::load_board,       *)
(* LetterBoxed::validate and LetterBoxed::solve (the breadth-first search  *)
(* over word chains).  A char is a one-character string, a word (&str) is  *)
(* a sequence of chars, a word list is a sequence of words.                *)
(***************************************************************************)
EXTENDS Integers, Sequences, FiniteSets, TLC

\* ------------------------------------------------------------------ bounds
MaxWords == 3
MaxPrior == 2
MaxDepth == 3
MaxResults == 2
\* a max_depth larger than any chain the word lists of the model can form
DeepDepth == 50

\* ------------------------------------------------------------- input sets
\* chars in ascending code-point order (the order of BTreeMap<char, _>)
Alphabet == <<" ", "A", "B", "C", "D", "E">>

\* the words the word lists of the model are drawn from
Pool ==
    << <<"E", "A", "B", "C">>,
       <<"C", "A", "B">>,
       <<"B", "D", "B">>,
       <<"C", "D", "A">>,
       <<"A", "B", "A">>,
       <<"A", "C", "A">>,
       <<"A", "D", "C", "A">>,
       <<"A", "C", "E">>,
       <<"A", "B", "C", " ">>,
       <<"A", "B">> >>

\* the boards of the model, each a slice of four sides
Boards ==
    { << <<"A">>, <<"B">>, <<"C">>, <<"D", "E">> >>,
      << <<"A">>, <<"B">>, <<"C">>, <<"D">> >>,
      << <<"A", "B">>, <<"C">>, <<"D">>, <<>> >> }

RECURSIVE PickWords(_, _)
\* the words of Pool at the positions S, in Pool order, from position i on
PickWords(S, i) ==
    IF i > Len(Pool) THEN <<>>
    ELSE IF i \in S THEN <<Pool[i]>> \o PickWords(S, i + 1)
    ELSE PickWords(S, i + 1)

WordLists ==
    { PickWords(S, 1) : S \in { T \in SUBSET (1..Len(Pool)) : Cardinality(T) <= MaxWords } }

SeqsUpTo(S, n) == UNION { [1..k -> S] : k \in 0..n }

\* ------------------------------------------------------------- primitives
Ord(c) == CHOOSE i \in 1..Len(Alphabet) : Alphabet[i] = c

\* str::chars() collected as a set
Chars(w) == { w[i] : i \in 1..Len(w) }

IsWhitespace(c) == c = " "

RECURSIVE TrimStart(_)
TrimStart(w) ==
    IF w # <<>> /\ IsWhitespace(Head(w)) THEN TrimStart(Tail(w)) ELSE w

RECURSIVE TrimEnd(_)
TrimEnd(w) ==
    IF w # <<>> /\ IsWhitespace(w[Len(w)]) THEN TrimEnd(SubSeq(w, 1, Len(w) - 1)) ELSE w

\* str::trim()
Trim(w) == TrimEnd(TrimStart(w))

RECURSIVE SortedChars(_)
\* the chars of S in ascending order (iteration order of a BTreeMap's keys)
SortedChars(S) ==
    IF S = {} THEN <<>>
    ELSE LET m == CHOOSE c \in S : \A d \in S : Ord(c) <= Ord(d)
         IN  <<m>> \o SortedChars(S \ {m})

RECURSIVE SortedInts(_)
\* the numbers of S in ascending order (iteration order of a BTreeSet<usize>)
SortedInts(S) ==
    IF S = {} THEN <<>>
    ELSE LET m == CHOOSE i \in S : \A j \in S : i <= j
         IN  <<m>> \o SortedInts(S \ {m})

RECURSIVE Flatten(_)
Flatten(ss) == IF ss = <<>> THEN <<>> ELSE Head(ss) \o Flatten(Tail(ss))

\* --------------------------------------------------------------- the board
\* LetterBoxed::load_board
load_board(sides) ==
    [ nonadjacent |->
        UNION { { <<sides[s][i], sides[s][j]>> : i, j \in 1..Len(sides[s]) }
                : s \in 1..Len(sides) },
      letters |-> UNION { Chars(sides[s]) : s \in 1..Len(sides) } ]

\* the inner loop of validate over one word: no pair of consecutive chars is
\* in nonadjacent
WordAdjacencyOk(b, word) ==
    \A i \in 1..(Len(word) - 1) : <<word[i], word[i + 1]>> \notin b.nonadjacent

\* chars().last() and chars().next() as Option<char>
LastChar(w) == IF w = <<>> THEN "None" ELSE w[Len(w)]
FirstChar(w) == IF w = <<>> THEN "None" ELSE w[1]

\* LetterBoxed::validate
validate(b, solution) ==
    /\ \A i \in 1..(Len(solution) - 1) : LastChar(solution[i]) = FirstChar(solution[i + 1])
    /\ \A i \in 1..Len(solution) : WordAdjacencyOk(b, solution[i])

\* ---------------------------------------------------------------- the state
VARIABLES
    sides,        \* the slice given to load_board
    board,        \* the LetterBoxed: nonadjacent, letters
    words,        \* solve's word list
    prior,        \* solve's prior_words_indices (1-based positions in words)
    max_depth,
    max_results,
    pc,           \* "call", "loop", "break", "done": where solve is
    graph,        \* start letter -> end letter -> set of word indices
    q,            \* the VecDeque of State {cur, visited, path}
    best,         \* (visited.len(), path) of the best state seen
    results,      \* the (path, count) pairs pushed so far
    out           \* the Vec solve returned: (chain of words, count)

vars == <<sides, board, words, prior, max_depth, max_results, pc, graph, q, best,
          results, out>>

inputs == <<sides, board, words, prior, max_depth, max_results>>

\* ------------------------------------------------------------------- solve
\* the filter of the graph-building loop: the trimmed word is long enough,
\* has only letters of the board and no nonadjacent pair of consecutive chars
Eligible(b, word) ==
    LET w == Trim(word)
    IN  /\ ~(Len(w) < 3 \/ \E c \in Chars(w) : c \notin b.letters)
        /\ \A i \in 1..(Len(w) - 1) : <<w[i], w[i + 1]>> \notin b.nonadjacent

\* the graph built from the word list: first char -> last char -> indices
BuildGraph(b, ws) ==
    LET E == { i \in 1..Len(ws) : Eligible(b, ws[i]) }
        first(i) == Trim(ws[i])[1]
        last(i) == Trim(ws[i])[Len(Trim(ws[i]))]
    IN  [ k \in { first(i) : i \in E } |->
            [ e \in { last(i) : i \in { j \in E : first(j) = k } } |->
                { i \in E : first(i) = k /\ last(i) = e } ] ]

\* the queue preloaded at each possible start location
StartSeeds(g) ==
    LET ks == SortedChars(DOMAIN g)
    IN  [ n \in 1..Len(ks) |-> [cur |-> ks[n], visited |-> {ks[n]}, path |-> <<>>] ]

\* the single state that resumes after the words already played
PriorSeedNoPath(ws, pr) ==
    << [ cur |-> ws[pr[Len(pr)]][Len(ws[pr[Len(pr)]])],
         visited |-> UNION { Chars(ws[pr[i]]) : i \in 1..Len(pr) },
         path |-> <<>> ] >>

PriorSeed(ws, pr) ==
    << [ cur |-> ws[pr[Len(pr)]][Len(ws[pr[Len(pr)]])],
         visited |-> UNION { Chars(ws[pr[i]]) : i \in 1..Len(pr) },
         path |-> pr ] >>

\* the best-available record is replaced by a state that visited more
\* letters, or as many on a shorter path
Improves(state, bst) ==
    \/ Cardinality(state.visited) > bst.count
    \/ (Cardinality(state.visited) = bst.count /\ Len(state.path) < Len(bst.path))

AddsNewAlways(visited, w) == TRUE

\* only routes whose word has a char not yet visited are considered
AddsNew(visited, w) == \E c \in Chars(w) : c \notin visited

PushFront(queue, new) == new \o queue

\* q.push_back of each new state, in order
PushBack(queue, new) == queue \o new

\* the states pushed for one end letter, over its word indices in order
Routes(ws, state, next_letter, idxs) ==
    LET keep == SelectSeq(idxs, LAMBDA i : AddsNew(state.visited, ws[i]))
    IN  [ n \in 1..Len(keep) |->
            [ cur |-> next_letter,
              visited |-> state.visited \cup Chars(ws[keep[n]]),
              path |-> Append(state.path, keep[n]) ] ]

\* every state pushed when `state` is expanded
Expand(g, ws, state) ==
    LET options == g[state.cur]
        ends == SortedChars(DOMAIN options)
    IN  Flatten([ n \in 1..Len(ends) |->
                    Routes(ws, state, ends[n], SortedInts(options[ends[n]])) ])

NoFallback(res, bst) == res

\* if no complete result was found, the best one found is the output
WithFallback(res, bst) ==
    IF res = <<>> THEN <<[path |-> bst.path, count |-> bst.count]>> ELSE res

\* indices mapped back to words
MapWords(ws, res) ==
    [ n \in 1..Len(res) |->
        [ chain |-> [ i \in 1..Len(res[n].path) |-> ws[res[n].path[i]] ],
          count |-> res[n].count ] ]

DepthValues == (0..MaxDepth) \cup {DeepDepth}

Init ==
    /\ sides \in Boards
    /\ board = load_board(sides)
    /\ words \in WordLists
    /\ prior \in SeqsUpTo(1..Len(words), MaxPrior)
    /\ max_depth \in DepthValues
    /\ max_results \in 0..MaxResults
    /\ pc = "call"
    /\ graph = <<>>
    /\ q = <<>>
    /\ best = [count |-> 0, path |-> <<>>]
    /\ results = <<>>
    /\ out = <<>>

\* solve up to the search loop: the graph is built and the queue seeded
SolveBegin ==
    /\ pc = "call"
    /\ graph' = BuildGraph(board, words)
    /\ q' = IF prior = <<>> THEN StartSeeds(graph') ELSE PriorSeed(words, prior)
    /\ pc' = "loop"
    /\ UNCHANGED <<inputs, best, results, out>>

\* one iteration of `while let Some(state) = q.pop_front()`
SolveStep ==
    /\ pc = "loop"
    /\ q # <<>>
    /\ LET state == Head(q)
           rest == Tail(q)
       IN  /\ best' = IF Improves(state, best)
                      THEN [count |-> Cardinality(state.visited), path |-> state.path]
                      ELSE best
           /\ IF state.visited = board.letters
              THEN /\ results' = Append(results,
                                   [path |-> state.path, count |-> Cardinality(board.letters)])
                   /\ pc' = IF Len(results') >= max_results THEN "break" ELSE "loop"
                   /\ q' = rest
              ELSE /\ results' = results
                   /\ pc' = "loop"
                   /\ q' = IF state.cur \in DOMAIN graph /\ ~(Len(state.path) + 1 > max_depth)
                           THEN PushBack(rest, Expand(graph, words, state))
                           ELSE rest
    /\ UNCHANGED <<inputs, graph, out>>

\* after the loop: the fallback and the mapping back to words
SolveReturn ==
    /\ pc = "break" \/ (pc = "loop" /\ q = <<>>)
    /\ out' = MapWords(words, WithFallback(results, best))
    /\ pc' = "done"
    /\ UNCHANGED <<inputs, graph, q, best, results>>

Next == SolveBegin \/ SolveStep \/ SolveReturn

Spec == Init /\ [][Next]_vars

\* solve called with the depth limit out of reach, so that only the
\* new-letter filter and max_results can end the search, with the largest
\* result limit and at most one word already played
FairInit ==
    /\ Init
    /\ max_depth = DeepDepth
    /\ max_results = MaxResults
    /\ Len(prior) <= 1

\* solve is sequential code: a step that can be taken is taken
FairSpec == FairInit /\ [][Next]_vars /\ WF_vars(Next)

\* ------------------------------------------------------- claim vocabulary
Done == pc = "done"

\* the set of letters occurring in the words of a chain
ChainLetters(chain) == UNION { Chars(chain[i]) : i \in 1..Len(chain) }

\* the board's distinct-letter count
Total == Cardinality(board.letters)

\* a Result whose coverage_count is the board's distinct-letter count
IsFull(r) == r.count = Total

\* a full-coverage Result: the words of its chain use every board letter
FullCoverage(r) == board.letters \subseteq ChainLetters(r.chain)

\* eligibility as the specification words it, on the word as given: length
\* at least 3, every character on the board, no same-side consecutive pair
SpecEligible(w) ==
    /\ Len(w) >= 3
    /\ Chars(w) \subseteq board.letters
    /\ \A i \in 1..(Len(w) - 1) : <<w[i], w[i + 1]>> \notin board.nonadjacent

\* chains of at most n word indices of eligible words that link end letter to
\* start letter and together use every board letter
CoveringChains(n) ==
    { c \in SeqsUpTo(1..Len(words), n) :
        /\ \A i \in 1..Len(c) : SpecEligible(words[c[i]])
        /\ \A i \in 1..(Len(c) - 1) : LastChar(words[c[i]]) = FirstChar(words[c[i + 1]])
        /\ UNION { Chars(words[c[i]]) : i \in 1..Len(c) } = board.letters }

Min(a, b) == IF a < b THEN a ELSE b

\* the chains considered when looking for the minimum (max_depth, capped)
ShortChains == CoveringChains(Min(max_depth, MaxDepth + 1))

\* C1: with an empty prefix and max_results >= 1, whenever a covering chain of
\* at most max_depth eligible words exists, the first Result returned is a
\* full-coverage chain with the minimum word count over all such chains.
C1_ShortestCoveringChainFound ==
    (Done /\ prior = <<>> /\ max_results >= 1 /\ ShortChains # {}) =>
        /\ FullCoverage(out[1])
        /\ IsFull(out[1])
        /\ \A c \in ShortChains : Len(out[1].chain) <= Len(c)

\* C2: every chain in the list solve returns passes validate, whatever the
\* board, word list, prefix, max_depth and max_results.
C2_ValidatorSoundness ==
    Done => \A n \in 1..Len(out) : validate(board, out[n].chain)

C4_CoverageCorrectness ==
    Done => \A n \in 1..Len(out) :
                IsFull(out[n]) => ChainLetters(out[n].chain) = board.letters

\* C5: the word counts of the full-coverage Results are non-decreasing in
\* output order.
C5_MonotonicMinimality ==
    Done => \A i, j \in 1..Len(out) :
                (i < j /\ FullCoverage(out[i]) /\ FullCoverage(out[j])) =>
                    Len(out[i].chain) <= Len(out[j].chain)

\* two full-coverage Results of different word counts were returned
C5_Witness ==
    /\ Done
    /\ Len(out) >= 2
    /\ FullCoverage(out[1]) /\ FullCoverage(out[2])
    /\ Len(out[1].chain) < Len(out[2].chain)

\* C6: with a non-empty prefix every returned chain begins with exactly the
\* words of the prefix, in order, for any max_depth.
C6_ResumptionConsistency ==
    (Done /\ prior # <<>>) =>
        \A n \in 1..Len(out) :
            /\ Len(out[n].chain) >= Len(prior)
            /\ \A i \in 1..Len(prior) : out[n].chain[i] = words[prior[i]]

\* a chain that extends a two-word prefix was returned
C6_Witness ==
    /\ Done
    /\ Len(prior) = MaxPrior
    /\ Len(out[1].chain) > Len(prior)

\* C7: the number of full-coverage Results returned never exceeds
\* max_results, for every max_results including 0.
C7_MaxResultsBound ==
    Done => Cardinality({ n \in 1..Len(out) : FullCoverage(out[n]) }) <= max_results

\* C8: every returned chain has at most max_depth words, prefix included.
C8_MaxDepthBound ==
    Done => \A n \in 1..Len(out) : Len(out[n].chain) <= max_depth

\* C9: coverage_count is the number of distinct board letters occurring in
\* the words of the chain, and equals the board's count only when the chain
\* covers every board letter.
C9_CoverageCountMeaning ==
    Done => \A n \in 1..Len(out) :
                /\ out[n].count = Cardinality(ChainLetters(out[n].chain) \cap board.letters)
                /\ IsFull(out[n]) => FullCoverage(out[n])

\* the visited set of the seed state(s) of the call
SeedVisitedSize(s) ==
    IF prior = <<>> THEN 1
    ELSE Cardinality(UNION { Chars(words[prior[i]]) : i \in 1..Len(prior) })

\* every state pushed by an iteration has a strictly larger visited set than
\* the state the iteration popped
StrictGrowth ==
    SolveStep =>
        \A i \in Len(q)..Len(q') :
            /\ Head(q).visited \subseteq q'[i].visited
            /\ Head(q).visited # q'[i].visited

\* no queued path extends the seed path by more words than letters added
PathBound ==
    \A i \in 1..Len(q) :
        Len(q[i].path) - Len(prior) <= Cardinality(q[i].visited) - SeedVisitedSize(q[i])

\* C10: for every max_depth, however large, solve ends (the queue empties or
\* the search breaks), because each pushed state has a strictly larger
\* visited set than its parent, so no path outgrows the letters added.
C10_Termination ==
    /\ [][StrictGrowth]_vars
    /\ [](PathBound)
    /\ <>Done

\* with a max_depth that never prunes, the queue emptied after the search
\* went two words deep
C10_Witness ==
    /\ Done
    /\ max_depth = DeepDepth
    /\ results = <<>>
    /\ Len(best.path) >= 2

====
